---- MODULE Spec2Model ----
(***************************************************************************)
(* Model of src/index.ts: an express application with five routes          *)
(* (POST /register, POST /login, GET /user/me, POST /post/create,          *)
(* GET /posts), the authenticateToken middleware, a pg connection pool,    *)
(* bcrypt password hashing and jsonwebtoken signing.                       *)
(*                                                                         *)
(* Node runs every handler on one thread: a handler runs without           *)
(* interruption from one await to the next.  Each action below is one     *)
(* such run-to-completion segment of one request.                          *)
(***************************************************************************)
EXTENDS Integers, FiniteSets, Sequences, TLC

(* ---------------------------- bounds ---------------------------------- *)
NumReqs == 2        \* requests in flight at once
PoolMax == 2        \* connections the pool hands out before connect() waits
MaxPosts == 2       \* rows the posts table may hold
NumSalts == 1       \* distinct salts bcrypt may draw
NumTimes == 1       \* distinct clock readings jwt.sign may stamp as iat

Reqs == 1..NumReqs
Salts == 1..NumSalts
Times == 1..NumTimes
Emails == {"a@x", "b@x"}
Passwords == {"pw1", "pw2"}
Texts == {"hello"}
UserIds == 1..Cardinality(Emails)

(* ------------------------- JavaScript values -------------------------- *)
\* A field that is missing from the JSON body (the value undefined).
Absent == "<undefined>"

\* JavaScript truthiness of a string-or-undefined body field: !x holds for
\* undefined and for "".
Falsy(x) == x \in {Absent, ""}

\* The signing key when process.env.JWT_SECRET is not set.
NoSecret == "<undefined>"
TheSecret == "process-secret"
OtherSecret == "attacker-secret"

\* Every string that travels in the Authorization header is one record.  A
\* string of JWT shape has text "jwt", carries its decoded payload userId
\* and its signature; the signature is the MAC of the payload under a key,
\* kept as the pair (sigUid, sigKey).  Any other string has its text only.
\* iat is the payload's iat claim, 0 where there is none.
Str(s) == [text |-> s, userId |-> 0, iat |-> 0, sigUid |-> 0, sigKey |-> ""]
Undefined == Str(Absent)
NoToken == Str("")
FalsyStr(s) == s.text \in {Absent, ""}

(* --------------------------- jsonwebtoken ----------------------------- *)
\* jwt.sign(payload, secret) throws when the secret has no value.
jwt_sign_throws(secret) == secret = NoSecret

\* jwt.sign({ userId }, secret) at clock reading iat: jsonwebtoken adds the
\* iat claim to the payload (no noTimestamp option is given) and signs it.
jwt_sign(userId, secret, iat) ==
    [text |-> "jwt", userId |-> userId, iat |-> iat,
     sigUid |-> userId, sigKey |-> secret]

\* Mutant: the callback's parameters taken in the order (user, err), so that
\* on success the value bound to user is the null error.
jwt_payload_null(token) == [userId |-> 0, iat |-> 0]

\* The decoded payload jwt.verify hands to its callback.
jwt_payload(token) == [userId |-> token.userId, iat |-> token.iat]

\* Mutant: jwt.decode in place of jwt.verify, which checks the shape only.
jwt_decode_err(token, secret) == token.text # "jwt"

\* jwt.verify(token, secret, cb): err is set unless the token has JWT shape,
\* a secret is given and the signature is the MAC of the payload under it.
\* Every token here is signed; with an undefined secret jsonwebtoken reports
\* 'secret or public key must be provided' for each of them.
jwt_verify_err(token, secret) ==
    \/ token.text # "jwt"
    \/ secret = NoSecret
    \/ token.sigKey # secret
    \/ token.sigUid # token.userId

\* An issued token with its payload changed and the signature left as it was.
Tamper(token, uid) == [token EXCEPT !.userId = uid]

(* ------------------------------ bcrypt -------------------------------- *)
\* bcrypt.hash(password, 10) with the salt it drew: the encoded hash carries
\* the salt and the digest of (salt, password).
bcrypt_hash(password, salt) == [salt |-> salt, digest |-> <<salt, password>>]
NoHash == [salt |-> 0, digest |-> <<0, "">>]

\* bcrypt.compare(password, hash): recompute with the stored salt.
bcrypt_compare(password, hash) == hash.digest = <<hash.salt, password>>

(* ------------------------------ state --------------------------------- *)
VARIABLES
    JWT_SECRET,   \* const JWT_SECRET = process.env.JWT_SECRET
    users,        \* table users(id, email unique, password)
    posts,        \* table posts(id, text, user_id)
    pool,         \* number of pool clients checked out and not released
    issued,       \* tokens the service has sent to clients
    reqs          \* the requests in flight: req, res and the handler's locals

vars == <<JWT_SECRET, users, posts, pool, issued, reqs>>

NoRow == [id |-> 0, email |-> "", password |-> NoHash]
\* The JSON object res.json(user) sends: the columns the SELECT named; a
\* column it did not name is absent (password NoHash).
NoUser == [id |-> 0, email |-> "", password |-> NoHash]

\* A request slot with no request in it.
Idle ==
    [route |-> "none", pc |-> "idle",
     email |-> Absent, password |-> Absent, text |-> Absent, owner |-> 0,
     header |-> <<>>,
     token |-> Undefined,        \* the token authenticateToken extracted
     user |-> 0,                 \* req.user.userId, 0 while not attached
     iat |-> 0,                  \* req.user.iat, 0 while req.user has none
     hashedPassword |-> NoHash,  \* register's local hashedPassword
     row |-> NoRow,              \* login's local user
     client |-> FALSE,           \* holds a pool client not yet released
     acquired |-> 0,             \* pool clients this request was given
     verifies |-> 0,             \* calls of jwt.verify for this request
     calls |-> 0,                \* invocations of the route handler
     sent |-> 0,                 \* responses sent
     status |-> 0, msg |-> "", rtoken |-> NoToken, ruser |-> NoUser,
     rposts |-> {}]

\* res.status(code).send(message): the request is finished.
Send(q, code, message) ==
    [q EXCEPT !.pc = "done", !.sent = @ + 1, !.status = code, !.msg = message]

\* res.status(code).json({ token }).
SendToken(q, code, token) ==
    [q EXCEPT !.pc = "done", !.sent = @ + 1, !.status = code, !.rtoken = token]

\* Mutant: res.status(500).send(error.message).
CatchDetail(q) == Send(q, 500, "error.message")

\* The catch block of every handler: res.status(500).send(...).  It does
\* not release the client.
Catch(q) == Send(q, 500, "Internal Server Error")

Init ==
    /\ JWT_SECRET \in {TheSecret, NoSecret}
    /\ users = {}
    /\ posts = {}
    /\ pool = 0
    /\ issued = {}
    /\ reqs = [r \in Reqs |-> Idle]

(* --------------------------- the datastore ---------------------------- *)
\* The unique constraint on users.email.
EmailTaken(table, email) == \E u \in table : u.email = email

\* Mutant: INSERT ... ON CONFLICT (email) DO UPDATE SET password = $2.
UpsertUser(table, email, hashedPassword) ==
    IF EmailTaken(table, email)
    THEN LET old == CHOOSE u \in table : u.email = email
         IN  [err |-> FALSE,
              table |-> (table \ {old}) \cup {[old EXCEPT !.password = hashedPassword]},
              id |-> old.id]
    ELSE [err |-> FALSE,
          table |-> table \cup {[id |-> Cardinality(table) + 1, email |-> email,
                                 password |-> hashedPassword]},
          id |-> Cardinality(table) + 1]

\* INSERT INTO users (email, password) VALUES ($1, $2) RETURNING id.
\* err: the statement raised (unique violation) and stored nothing.
InsertUser(table, email, hashedPassword) ==
    IF EmailTaken(table, email)
    THEN [err |-> TRUE, table |-> table, id |-> 0]
    ELSE [err |-> FALSE,
          table |-> table \cup {[id |-> Cardinality(table) + 1, email |-> email,
                                 password |-> hashedPassword]},
          id |-> Cardinality(table) + 1]

\* SELECT * FROM users WHERE email = $1, then result.rows[0].
SelectUserByEmail(table, email) ==
    IF \E u \in table : u.email = email
    THEN CHOOSE u \in table : u.email = email
    ELSE NoRow

\* Mutant: SELECT id, email FROM users without the WHERE clause; rows[0] is
\* the oldest row.
SelectUserFirst(table, userId) ==
    IF table = {} THEN NoUser
    ELSE LET u == CHOOSE u \in table : \A v \in table : u.id <= v.id
         IN  [id |-> u.id, email |-> u.email, password |-> NoHash]

\* Mutant: SELECT * FROM users WHERE id = $1, which returns the password
\* column too.
SelectUserByIdStar(table, userId) ==
    IF \E u \in table : u.id = userId
    THEN CHOOSE u \in table : u.id = userId
    ELSE NoUser

\* SELECT id, email FROM users WHERE id = $1, then result.rows[0].
SelectUserById(table, userId) ==
    IF \E u \in table : u.id = userId
    THEN LET u == CHOOSE u \in table : u.id = userId
         IN  [id |-> u.id, email |-> u.email, password |-> NoHash]
    ELSE NoUser

\* Mutant: the owner is taken from the body when the body names one.
InsertPostBodyOwner(table, text, userId, bodyOwner) ==
    [id |-> Cardinality(table) + 1, text |-> text,
     user_id |-> IF bodyOwner # 0 THEN bodyOwner ELSE userId]

\* INSERT INTO posts (text, user_id) VALUES ($1, $2) RETURNING *: the row.
\* bodyOwner is the user_id field of the request body, which the statement
\* does not use.
InsertPost(table, text, userId, bodyOwner) ==
    [id |-> Cardinality(table) + 1, text |-> text, user_id |-> userId]

\* Mutant: SELECT * FROM posts, without the WHERE clause.
SelectAllPosts(table, userId) == table

\* SELECT * FROM posts WHERE user_id = $1.
SelectPosts(table, userId) == {p \in table : p.user_id = userId}

(* ------------------------ authenticateToken --------------------------- *)
\* The header is kept as the segments authHeader.split(' ') yields (a string
\* and its list of space-free segments determine each other); <<>> is the
\* missing header.  authHeader && authHeader.split(' ')[1].
ExtractToken(header) == IF Len(header) >= 2 THEN header[2] ELSE Undefined

\* Mutant: if (token === undefined), which lets the empty segment through.
TokenMissingStrict(token) == token = Undefined

\* if (!token)
TokenMissing(token) == FalsyStr(token)

\* Mutant: /post/create without the check of text.
HandlerEntryNoCheck(q, body) ==
    IF q.route = "create"
    THEN [q EXCEPT !.text = body.text, !.owner = body.user_id, !.pc = "connect"]
    ELSE [q EXCEPT !.pc = "connect"]

\* The first segment of each route handler, up to its first await.  For
\* /post/create this is const { text } = req.body and the check of text;
\* the others go on to pool.connect().  body is the JSON body of the request:
\* its text and its user_id field, which no handler reads.
HandlerEntry(q, body) ==
    IF q.route = "create"
    THEN LET c == [q EXCEPT !.text = body.text, !.owner = body.user_id]
         IN  IF Falsy(body.text)
             THEN Send(c, 400, "Text is required")
             ELSE [c EXCEPT !.pc = "connect"]
    ELSE [q EXCEPT !.pc = "connect"]

\* next(): express invokes the route handler.
next(q, body) == HandlerEntry([q EXCEPT !.calls = @ + 1], body)

\* Mutant: the callback without the return after the 403, so that it falls
\* through to next().
VerifyCallbackFallsThrough(q, body, err, user) ==
    IF err
    THEN next([Send(q, 403, "Invalid token") EXCEPT !.user = user.userId,
                                                    !.iat = user.iat], body)
    ELSE next([q EXCEPT !.user = user.userId, !.iat = user.iat], body)

\* The callback given to jwt.verify: (err, user) => { ... }; user is the
\* decoded payload and req.user = user attaches all of it.
VerifyCallback(q, body, err, user) ==
    IF err
    THEN Send(q, 403, "Invalid token")
    ELSE next([q EXCEPT !.user = user.userId, !.iat = user.iat], body)

authenticateToken(q, body, secret) ==
    LET token == ExtractToken(q.header) IN
    IF TokenMissing(token)
    THEN Send(q, 401, "Access token is required")
    ELSE VerifyCallback([q EXCEPT !.token = token, !.verifies = @ + 1], body,
                        jwt_verify_err(token, secret), jwt_payload(token))

(* ------------------------- what clients send -------------------------- *)
\* JSON bodies of /register and /login: both fields given, or one of them
\* empty or missing, or both missing.
Credentials ==
    {[email |-> e, password |-> p] : e \in Emails, p \in Passwords}
    \cup {[email |-> e, password |-> "pw1"] : e \in {"", Absent}}
    \cup {[email |-> "a@x", password |-> p] : p \in {"", Absent}}
    \cup {[email |-> Absent, password |-> Absent]}

\* JSON bodies of /post/create: a text, an empty text or none, with or
\* without a user_id field naming an owner.
NoBody == [text |-> Absent, user_id |-> 0]
PostBodies ==
    {[text |-> t, user_id |-> o] : t \in Texts, o \in {0} \cup UserIds}
    \cup {[text |-> t, user_id |-> 0] : t \in {"", Absent}}

Bearer(t) == <<Str("Bearer"), t>>

\* Issued tokens with the payload's userId replaced by another one.
Tampered == {Tamper(t, u) : t \in issued, u \in UserIds} \ issued

\* Authorization headers: none, no token segment, an empty token segment,
\* two spaces before the token, a string that is no JWT, a token signed
\* with another key, an issued token, an issued token with its payload
\* changed, and an issued token under the scheme word Basic.
Headers ==
    {<< >>, <<Str("Bearer")>>, Bearer(Str("")), Bearer(Str("garbage"))}
    \cup {<<Str("Bearer"), Str(""), t>> : t \in issued}
    \cup {Bearer(jwt_sign(1, OtherSecret, 1))}
    \cup {Bearer(t) : t \in issued}
    \cup {Bearer(t) : t \in Tampered}
    \cup {<<Str("Basic"), t>> : t \in issued}

(* ------------------------------ actions ------------------------------- *)
\* Mutant: the check of the email alone.
MissingFieldEmailOnly(email, password) == Falsy(email)

\* if (!email || !password)
MissingField(email, password) == Falsy(email) \/ Falsy(password)

\* app.post('/register', ...) up to await bcrypt.hash.
PostRegister(r) ==
    /\ reqs[r].pc = "idle"
    /\ \E body \in Credentials :
         LET q == [Idle EXCEPT !.route = "register", !.email = body.email,
                               !.password = body.password, !.calls = 1]
         IN  reqs' = [reqs EXCEPT ![r] =
                 IF MissingField(q.email, q.password)
                 THEN Send(q, 400, "Email and password are required")
                 ELSE [q EXCEPT !.pc = "hash"]]
    /\ UNCHANGED <<JWT_SECRET, users, posts, pool, issued>>

\* bcrypt.hash resolves; the handler calls pool.connect().
RegisterHashed(r) ==
    /\ reqs[r].pc = "hash"
    /\ \E salt \in Salts :
         reqs' = [reqs EXCEPT ![r] =
             [@ EXCEPT !.hashedPassword = bcrypt_hash(reqs[r].password, salt),
                       !.pc = "connect"]]
    /\ UNCHANGED <<JWT_SECRET, users, posts, pool, issued>>

\* app.post('/login', ...) up to await pool.connect().
PostLogin(r) ==
    /\ reqs[r].pc = "idle"
    /\ \E body \in Credentials :
         LET q == [Idle EXCEPT !.route = "login", !.email = body.email,
                               !.password = body.password, !.calls = 1]
         IN  reqs' = [reqs EXCEPT ![r] =
                 IF MissingField(q.email, q.password)
                 THEN Send(q, 400, "Email and password are required")
                 ELSE [q EXCEPT !.pc = "connect"]]
    /\ UNCHANGED <<JWT_SECRET, users, posts, pool, issued>>

\* A request to a protected route: express runs authenticateToken and, when
\* it calls next(), the handler up to its first await.
Protected(r, route, header, body) ==
    /\ reqs[r].pc = "idle"
    /\ reqs' = [reqs EXCEPT ![r] =
           authenticateToken([Idle EXCEPT !.route = route, !.header = header],
                             body, JWT_SECRET)]
    /\ UNCHANGED <<JWT_SECRET, users, posts, pool, issued>>

\* app.get('/user/me', authenticateToken, ...)
GetUserMe(r) == \E header \in Headers : Protected(r, "me", header, NoBody)

\* The posts that are stored or that a request in flight may still store.
PostsPending ==
    Cardinality(posts)
    + Cardinality({x \in Reqs : reqs[x].route = "create" /\ reqs[x].pc # "done"})

\* app.post('/post/create', authenticateToken, ...)
PostPostCreate(r) ==
    /\ PostsPending < MaxPosts
    /\ \E header \in Headers, body \in PostBodies :
         Protected(r, "create", header, body)

\* app.get('/posts', authenticateToken, ...)
GetPosts(r) == \E header \in Headers : Protected(r, "posts", header, NoBody)

\* await pool.connect() resolves with a client.
Connect(r) ==
    /\ reqs[r].pc = "connect"
    /\ pool < PoolMax
    /\ pool' = pool + 1
    /\ reqs' = [reqs EXCEPT ![r] =
           [@ EXCEPT !.pc = "query", !.client = TRUE, !.acquired = @ + 1]]
    /\ UNCHANGED <<JWT_SECRET, users, posts, issued>>

\* await pool.connect() rejects: the pool has room for a client but the
\* datastore cannot be reached.  With every client checked out the call is
\* queued instead, and the pool is given no connectionTimeoutMillis.
ConnectError(r) ==
    /\ reqs[r].pc = "connect"
    /\ pool < PoolMax
    /\ reqs' = [reqs EXCEPT ![r] = Catch(@)]
    /\ UNCHANGED <<JWT_SECRET, users, posts, pool, issued>>

\* await client.query(...) rejects for a failure of the datastore: control
\* jumps to the catch block, past client.release().
QueryError(r) ==
    /\ reqs[r].pc = "query"
    /\ reqs' = [reqs EXCEPT ![r] = Catch(@)]
    /\ UNCHANGED <<JWT_SECRET, users, posts, pool, issued>>

\* client.release()
Release(q) == [q EXCEPT !.client = FALSE]

\* const token = jwt.sign({ userId }, JWT_SECRET); res.status(code).json({ token })
\* inside the try block.
SignAndSend(q, code, userId, secret, iat) ==
    IF jwt_sign_throws(secret)
    THEN Catch(q)
    ELSE SendToken(q, code, jwt_sign(userId, secret, iat))

Issue(q) == IF q.rtoken = NoToken THEN issued ELSE issued \cup {q.rtoken}

\* /register: the INSERT resolves or raises; release, sign, respond.
RegisterInsert(r) ==
    /\ reqs[r].pc = "query"
    /\ reqs[r].route = "register"
    /\ \E iat \in Times :
       LET q == reqs[r]
           res == InsertUser(users, q.email, q.hashedPassword)
           done == IF res.err THEN Catch(q)
                   ELSE SignAndSend(Release(q), 201, res.id, JWT_SECRET, iat)
       IN  /\ users' = res.table
           /\ pool' = IF res.err THEN pool ELSE pool - 1
           /\ reqs' = [reqs EXCEPT ![r] = done]
           /\ issued' = Issue(done)
    /\ UNCHANGED <<JWT_SECRET, posts>>

\* Mutant: the 401 of the unknown email without its return; user.password
\* then throws on the undefined row and the catch block sends again.
LoginNoUserNoReturn(q) == Catch(Send(q, 401, "Invalid email or password"))

\* Mutant: a response of its own for the unknown email.
LoginNoUser404(q) == Send(q, 404, "User not found")

\* if (!user) return res.status(401).send('Invalid email or password')
LoginNoUser(q) == Send(q, 401, "Invalid email or password")

\* if (!passwordMatch) return res.status(401).send('Invalid email or password')
LoginNoMatch(q) == Send(q, 401, "Invalid email or password")

\* /login: the SELECT resolves; release; no user, or await bcrypt.compare.
LoginSelect(r) ==
    /\ reqs[r].pc = "query"
    /\ reqs[r].route = "login"
    /\ LET q == Release(reqs[r])
           user == SelectUserByEmail(users, q.email)
       IN  reqs' = [reqs EXCEPT ![r] =
               IF user = NoRow THEN LoginNoUser(q)
               ELSE [q EXCEPT !.row = user, !.pc = "compare"]]
    /\ pool' = pool - 1
    /\ UNCHANGED <<JWT_SECRET, users, posts, issued>>

\* /login: bcrypt.compare resolves; mismatch, or sign and respond.
LoginCompare(r) ==
    /\ reqs[r].pc = "compare"
    /\ \E iat \in Times :
       LET q == reqs[r]
           done == IF ~bcrypt_compare(q.password, q.row.password)
                   THEN LoginNoMatch(q)
                   ELSE SignAndSend(q, 200, q.row.id, JWT_SECRET, iat)
       IN  /\ reqs' = [reqs EXCEPT ![r] = done]
           /\ issued' = Issue(done)
    /\ UNCHANGED <<JWT_SECRET, users, posts, pool>>

\* /user/me: the SELECT resolves; release; 404 or res.json(user).
MeSelect(r) ==
    /\ reqs[r].pc = "query"
    /\ reqs[r].route = "me"
    /\ LET q == Release(reqs[r])
           user == SelectUserById(users, q.user)
       IN  reqs' = [reqs EXCEPT ![r] =
               IF user = NoUser THEN Send(q, 404, "User not found")
               ELSE [Send(q, 200, "") EXCEPT !.ruser = user]]
    /\ pool' = pool - 1
    /\ UNCHANGED <<JWT_SECRET, users, posts, issued>>

\* /post/create: the INSERT resolves; release; res.status(201).json(createdPost).
CreateInsert(r) ==
    /\ reqs[r].pc = "query"
    /\ reqs[r].route = "create"
    /\ LET q == Release(reqs[r])
           createdPost == InsertPost(posts, q.text, q.user, q.owner)
       IN  /\ posts' = posts \cup {createdPost}
           /\ reqs' = [reqs EXCEPT ![r] =
                  [Send(q, 201, "") EXCEPT !.rposts = {createdPost}]]
    /\ pool' = pool - 1
    /\ UNCHANGED <<JWT_SECRET, users, issued>>

\* /posts: the SELECT resolves; release; res.json(posts).
PostsSelect(r) ==
    /\ reqs[r].pc = "query"
    /\ reqs[r].route = "posts"
    /\ LET q == Release(reqs[r])
       IN  reqs' = [reqs EXCEPT ![r] =
               [Send(q, 200, "") EXCEPT !.rposts = SelectPosts(posts, q.user)]]
    /\ pool' = pool - 1
    /\ UNCHANGED <<JWT_SECRET, users, posts, issued>>

\* The response has been written and express drops the request; a client
\* the handler did not release stays checked out of the pool.
Finish(r) ==
    /\ reqs[r].pc = "done"
    /\ reqs' = [reqs EXCEPT ![r] = Idle]
    /\ UNCHANGED <<JWT_SECRET, users, posts, pool, issued>>

\* The steps of the account routes, of the protected routes, and the steps
\* every route shares.
AccountStep(r) ==
    \/ PostRegister(r)
    \/ RegisterHashed(r)
    \/ PostLogin(r)
    \/ RegisterInsert(r)
    \/ LoginSelect(r)
    \/ LoginCompare(r)

ResourceStep(r) ==
    \/ GetUserMe(r)
    \/ PostPostCreate(r)
    \/ GetPosts(r)
    \/ MeSelect(r)
    \/ CreateInsert(r)
    \/ PostsSelect(r)

SharedStep(r) ==
    \/ Connect(r)
    \/ ConnectError(r)
    \/ QueryError(r)
    \/ Finish(r)

\* The whole service, NumReqs requests at a time.  Its state space is the
\* product of those of SpecAccount and SpecResource below, which restrict it
\* to the routes that interact: the account routes touch users only, the
\* protected routes read users' ids through tokens and touch posts only.
Next == \E r \in Reqs : AccountStep(r) \/ ResourceStep(r) \/ SharedStep(r)

Spec == Init /\ [][Next]_vars

\* The whole service handling one request at a time, from an empty datastore.
NextSerial == \E r \in {1} : AccountStep(r) \/ ResourceStep(r) \/ SharedStep(r)

SpecSerial == Init /\ [][NextSerial]_vars

\* Concurrent requests to /register and /login, from an empty datastore.
NextAccount == \E r \in Reqs : AccountStep(r) \/ SharedStep(r)

SpecAccount == Init /\ [][NextAccount]_vars

\* Two users registered earlier, one after the other, as SpecSerial leaves
\* them; their tokens were issued if the process has a secret to sign with.
Registered ==
    {[id |-> 1, email |-> "a@x", password |-> bcrypt_hash("pw1", 1)],
     [id |-> 2, email |-> "b@x", password |-> bcrypt_hash("pw2", 1)]}

InitResource ==
    /\ JWT_SECRET \in {TheSecret, NoSecret}
    /\ users = Registered
    /\ posts = {}
    /\ pool = 0
    /\ issued = IF JWT_SECRET = NoSecret THEN {}
                ELSE {jwt_sign(u.id, JWT_SECRET, t) : u \in users, t \in Times}
    /\ reqs = [r \in Reqs |-> Idle]

\* Concurrent requests to the protected routes of registered users.
NextResource == \E r \in Reqs : ResourceStep(r) \/ SharedStep(r)

SpecResource == InitResource /\ [][NextResource]_vars

\* The process restarted with the same secret on a datastore that holds any
\* part of the users registered earlier: the tokens of the earlier run still
\* verify, whether or not the row they name is there.
InitProfile ==
    /\ JWT_SECRET \in {TheSecret, NoSecret}
    /\ users \in SUBSET Registered
    /\ posts = {}
    /\ pool = 0
    /\ issued = IF JWT_SECRET = NoSecret THEN {}
                ELSE {jwt_sign(u.id, JWT_SECRET, t) : u \in Registered, t \in Times}
    /\ reqs = [r \in Reqs |-> Idle]

\* Concurrent requests to /user/me.
NextProfile == \E r \in Reqs : GetUserMe(r) \/ MeSelect(r) \/ SharedStep(r)

SpecProfile == InitProfile /\ [][NextProfile]_vars

(* ------------------------- properties: the gate ----------------------- *)
IsProtected(q) == q.route \in {"me", "create", "posts"}
Done(q) == q.pc = "done"
InFlight(q) == q.pc # "idle"

\* What the client receives.
Response(q) == <<q.status, q.msg, q.rtoken, q.ruser, q.rposts>>

\* C1: on a protected route the handler is invoked at most once per request,
\* only for a request whose own token is one the service issued and whose
\* req.user is that token's userId, and never for a request the gate
\* answered with 401 or 403.
C1_HandlerOnlyAfterVerify ==
    \A r \in Reqs :
        LET q == reqs[r] IN
        IsProtected(q) =>
            /\ q.calls <= 1
            /\ q.calls = 1 =>
                  /\ q.token = ExtractToken(q.header)
                  /\ q.token \in issued
                  /\ q.verifies = 1
                  /\ q.user = q.token.userId
            /\ q.status \in {401, 403} => q.calls = 0 /\ q.acquired = 0

\* A verified request whose handler ran to a 200 response, next to one the
\* gate rejected.
C1_Witness ==
    \E r1, r2 \in Reqs :
        /\ IsProtected(reqs[r1]) /\ Done(reqs[r1])
        /\ reqs[r1].calls = 1 /\ reqs[r1].status = 200
        /\ IsProtected(reqs[r2]) /\ Done(reqs[r2]) /\ reqs[r2].status = 403

\* The header has no token segment, or an empty one.
NoTokenSegment(header) == Len(header) < 2 \/ header[2].text = ""

\* C2: a request to a protected route with no Authorization header, or with
\* a missing or empty token segment, is answered 401 'Access token is
\* required'; jwt.verify is not called, the handler is not invoked and no
\* pool client is acquired.
C2_MissingTokenIs401 ==
    \A r \in Reqs :
        LET q == reqs[r] IN
        (IsProtected(q) /\ InFlight(q) /\ NoTokenSegment(q.header)) =>
            /\ Done(q)
            /\ Response(q) = <<401, "Access token is required", NoToken, NoUser, {}>>
            /\ q.sent = 1
            /\ q.verifies = 0
            /\ q.calls = 0
            /\ q.acquired = 0

\* One request without a header and one with 'Bearer ' were both answered.
C2_Witness ==
    \E r1, r2 \in Reqs :
        /\ IsProtected(reqs[r1]) /\ Done(reqs[r1]) /\ reqs[r1].header = << >>
        /\ IsProtected(reqs[r2]) /\ Done(reqs[r2])
        /\ reqs[r2].header = <<Str("Bearer"), Str("")>>
        /\ reqs[r2].status = 401

C4_ReleasedOnEveryExit ==
    \A r \in Reqs : Done(reqs[r]) => ~reqs[r].client

\* The request r sends its response in this step.
Completes(r) == InFlight(reqs[r]) /\ ~Done(reqs[r]) /\ Done(reqs'[r])

EmailStored(email) == \E u \in users : u.email = email

\* C5: at most one user record exists per email and stored records never
\* change; a /register request whose email is already stored ends with 500
\* 'Internal Server Error', no token and the users table as it was; a 201
\* is sent only for an email that was not stored, with a token for the new
\* record, so two registrations of one email are never both answered 201.
C5_Step ==
    /\ \A u1, u2 \in users' : u1.email = u2.email => u1 = u2
    /\ users \subseteq users'
    /\ \A r \in Reqs :
          LET q == reqs[r]
              d == reqs'[r]
          IN  (q.route = "register" /\ Completes(r)) =>
                /\ EmailStored(q.email) =>
                      /\ Response(d) = <<500, "Internal Server Error", NoToken, NoUser, {}>>
                      /\ users' = users
                      /\ issued' = issued
                /\ d.status = 201 =>
                      /\ ~EmailStored(q.email)
                      /\ \E u \in users' \ users :
                            /\ u.email = q.email
                            /\ u.password = q.hashedPassword
                            /\ d.rtoken.userId = u.id
    /\ \A r1, r2 \in Reqs :
          (/\ r1 # r2
           /\ reqs'[r1].route = "register" /\ reqs'[r1].status = 201
           /\ reqs'[r2].route = "register" /\ reqs'[r2].status = 201)
          => reqs'[r1].email # reqs'[r2].email

C5_OneUserPerEmail == [][C5_Step]_vars

\* A registration of a stored email with another password reached the INSERT
\* and was answered; a registration of another email was answered 201.
C5_Witness ==
    \E r1, r2 \in Reqs :
        /\ reqs[r1].route = "register" /\ Done(reqs[r1])
        /\ reqs[r1].acquired = 1 /\ reqs[r1].client
        /\ \E u \in users : /\ u.email = reqs[r1].email
                            /\ u.password # reqs[r1].hashedPassword
        /\ reqs[r2].route = "register" /\ reqs[r2].status = 201

\* The password a stored user registered with.
RegisteredPassword(u) == u.password.digest[2]

\* The request met a failure of the datastore: connect() rejected, or the
\* query rejected and left the client checked out.
DatastoreFailed(d) == d.acquired = 0 \/ d.client

\* C6: /login answers 200 with a token only if the email is that of a stored
\* user u, the password is the one u registered with and the token carries
\* u's id; with such credentials and no datastore failure it always answers
\* 200 with that token; with a wrong password or an unknown email and no
\* datastore failure it answers 401 without a token.
C6_Step ==
    \A r \in Reqs :
        LET q == reqs[r]
            d == reqs'[r]
            Match(u) == u.email = q.email /\ RegisteredPassword(u) = q.password
            Token(u) == /\ d.rtoken.text = "jwt"
                        /\ d.rtoken.userId = u.id
                        /\ d.rtoken \in issued'
        IN  (q.route = "login" /\ Completes(r)) =>
              /\ (d.status = 200 \/ d.rtoken # NoToken) =>
                    \E u \in users : Match(u) /\ Token(u) /\ d.status = 200
              /\ ((\E u \in users : Match(u)) /\ ~DatastoreFailed(d)) =>
                    \E u \in users : Match(u) /\ Token(u) /\ d.status = 200
              /\ (~(\E u \in users : Match(u)) /\ ~DatastoreFailed(d)) =>
                    Response(d) = <<401, "Invalid email or password", NoToken, NoUser, {}>>

C6_LoginTokenOnlyOnSuccess == [][C6_Step]_vars

\* A finished /login whose email was found and whose password is not the
\* registered one, and one whose email was not found.
WrongPassword(q) ==
    /\ q.route = "login" /\ Done(q)
    /\ q.row # NoRow /\ RegisteredPassword(q.row) # q.password

UnknownEmail(q) ==
    /\ q.route = "login" /\ Done(q)
    /\ q.row = NoRow /\ ~DatastoreFailed(q)

\* C7: /login with a registered email and a wrong password is answered with
\* exactly the response of /login with an unregistered email: 401 'Invalid
\* email or password'.
C7_SameResponse ==
    \A r1, r2 \in Reqs :
        /\ WrongPassword(reqs[r1]) =>
              Response(reqs[r1]) = <<401, "Invalid email or password", NoToken, NoUser, {}>>
        /\ (WrongPassword(reqs[r1]) /\ UnknownEmail(reqs[r2])) =>
              Response(reqs[r1]) = Response(reqs[r2])

\* Both cases were answered, side by side.
C7_Witness ==
    \E r1, r2 \in Reqs : WrongPassword(reqs[r1]) /\ UnknownEmail(reqs[r2])

(* ----------------------- properties: the resources -------------------- *)
\* The user a request's own Authorization header names.
TokenUser(q) == ExtractToken(q.header).userId

\* C8: whenever GET /posts answers 200, under any interleaving, the body is
\* exactly the stored posts whose user_id is the userId of the token in that
\* request's own header, and so holds no post of another user.
C8_Step ==
    \A r \in Reqs :
        LET d == reqs'[r] IN
        (reqs[r].route = "posts" /\ Completes(r) /\ d.status = 200) =>
            /\ ExtractToken(d.header) \in issued
            /\ d.user = TokenUser(d)
            /\ d.rposts = {p \in posts : p.user_id = TokenUser(d)}
            /\ \A p \in d.rposts : p.user_id = TokenUser(d)

C8_OwnPostsOnly == [][C8_Step]_vars

\* GET /posts returned a post of its user while a post of another user is
\* stored and a request of that other user is in flight.
C8_Witness ==
    \E r1, r2 \in Reqs :
        /\ reqs[r1].route = "posts" /\ Done(reqs[r1]) /\ reqs[r1].status = 200
        /\ reqs[r1].rposts # {}
        /\ \E p \in posts : p.user_id # reqs[r1].user
        /\ InFlight(reqs[r2]) /\ reqs[r2].calls = 1
        /\ reqs[r2].user # reqs[r1].user

\* C9: the post that POST /post/create stores has user_id equal to the userId
\* of the creating request's verified token, whatever user_id the body
\* carries, and the 201 response is that stored record with its id.
C9_Step ==
    /\ \A r \in Reqs :
          LET d == reqs'[r] IN
          (reqs[r].route = "create" /\ Completes(r) /\ d.status = 201) =>
              /\ ExtractToken(d.header) \in issued
              /\ \E p \in posts' \ posts :
                    /\ posts' = posts \cup {p}
                    /\ p.user_id = TokenUser(d)
                    /\ p.text = d.text
                    /\ p.id \notin {x.id : x \in posts}
                    /\ d.rposts = {p}
    /\ posts' # posts =>
          \E r \in Reqs :
              /\ reqs[r].route = "create" /\ Completes(r)
              /\ reqs'[r].status = 201

C9_OwnerIsTokenUser == [][C9_Step]_vars

\* A post was created by a request whose body named another user as owner.
C9_Witness ==
    \E r \in Reqs :
        /\ reqs[r].route = "create" /\ Done(reqs[r]) /\ reqs[r].status = 201
        /\ reqs[r].owner # 0
        /\ reqs[r].owner # reqs[r].user
        /\ reqs[r].rposts \subseteq posts

\* C10: an authenticated POST /post/create whose text is empty or absent is
\* answered 400 'Text is required' at once, acquires no pool client and
\* stores nothing: no stored post has an empty or absent text.
C10_EmptyTextIs400 ==
    /\ \A r \in Reqs :
          LET q == reqs[r] IN
          (q.route = "create" /\ q.calls = 1 /\ Falsy(q.text)) =>
              /\ Done(q)
              /\ Response(q) = <<400, "Text is required", NoToken, NoUser, {}>>
              /\ q.sent = 1
              /\ q.acquired = 0
    /\ \A p \in posts : ~Falsy(p.text)

\* An authenticated request with text "" and one without text were answered.
C10_Witness ==
    \E r1, r2 \in Reqs :
        /\ reqs[r1].route = "create" /\ reqs[r1].calls = 1 /\ reqs[r1].text = ""
        /\ reqs[r1].status = 400
        /\ reqs[r2].route = "create" /\ reqs[r2].calls = 1 /\ reqs[r2].text = Absent
        /\ reqs[r2].status = 400

(* --------------------- properties: tokens and startup ----------------- *)
\* The tokens /register and /login have sent carry the id of the stored user
\* with the request's email: that id is the userId that was signed.
IssuedForStoredUsers ==
    /\ \A r \in Reqs :
          LET q == reqs[r] IN
          (q.route \in {"register", "login"} /\ q.rtoken # NoToken) =>
              /\ q.rtoken \in issued
              /\ \E u \in users : u.email = q.email /\ q.rtoken.userId = u.id
    /\ \A t \in issued : \E u \in users : u.id = t.userId

\* C11 as stated: the identity the gate attaches for an issued token is
\* exactly { userId } with the userId that was signed, and nothing else.
C11_RoundTripExact ==
    /\ IssuedForStoredUsers
    /\ \A r \in Reqs :
          LET q == reqs[r] IN
          (IsProtected(q) /\ q.calls = 1) =>
              /\ ExtractToken(q.header) \in issued
              /\ q.user = ExtractToken(q.header).userId
              /\ q.iat = 0

\* C11 as amended: the identity the gate attaches for an issued token has
\* the userId that was signed, together with the iat claim jwt.sign added.
C11_RoundTripUserId ==
    /\ IssuedForStoredUsers
    /\ \A r \in Reqs :
          LET q == reqs[r] IN
          (IsProtected(q) /\ q.calls = 1) =>
              /\ ExtractToken(q.header) \in issued
              /\ q.user = ExtractToken(q.header).userId
              /\ q.iat = ExtractToken(q.header).iat
              /\ q.iat \in Times

\* The token of the second registered user came back through the gate and
\* its handler answered.
C11_Witness ==
    \E r \in Reqs :
        /\ IsProtected(reqs[r]) /\ Done(reqs[r]) /\ reqs[r].calls = 1
        /\ reqs[r].user = 2
        /\ \E u \in users : u.id = 2

\* C12: a process whose JWT_SECRET is absent fails at startup and serves no
\* request, so no request is ever received, let alone answered with a
\* failure, while the secret is absent.
C12_NoServingWithoutSecret ==
    JWT_SECRET = NoSecret => \A r \in Reqs : reqs[r].pc = "idle"

(* ------------------- properties: validation and errors ---------------- *)
\* C13: /register and /login with an empty or absent email or password are
\* answered 400 'Email and password are required' at once: nothing was
\* hashed, no pool client was acquired, no token was sent, and no stored
\* user has an empty email or password.
C13_MissingFieldIs400 ==
    /\ \A r \in Reqs :
          LET q == reqs[r] IN
          (/\ q.route \in {"register", "login"}
           /\ (q.email \in {"", Absent} \/ q.password \in {"", Absent})) =>
              /\ Done(q)
              /\ Response(q) = <<400, "Email and password are required",
                                 NoToken, NoUser, {}>>
              /\ q.sent = 1
              /\ q.hashedPassword = NoHash
              /\ q.acquired = 0
    /\ \A u \in users :
          u.email \notin {"", Absent} /\ RegisteredPassword(u) \notin {"", Absent}

\* A /register with an empty password and a /login without an email were
\* both answered 400.
C13_Witness ==
    \E r1, r2 \in Reqs :
        /\ reqs[r1].route = "register" /\ reqs[r1].password = ""
        /\ reqs[r1].status = 400
        /\ reqs[r2].route = "login" /\ reqs[r2].email = Absent
        /\ reqs[r2].status = 400

\* The fixed messages res.send is given.
Messages ==
    {"", "Email and password are required", "Invalid email or password",
     "Access token is required", "Invalid token", "User not found",
     "Text is required", "Internal Server Error"}

\* C14: no response holds a stored password hash: /register and /login send
\* a token and nothing else, /user/me sends id and email without the
\* password column, and every message is one of the fixed ones.
C14_NoHashInResponse ==
    \A r \in Reqs :
        LET q == reqs[r] IN
        /\ q.ruser.password = NoHash
        /\ \A u \in users : q.ruser.password # u.password
        /\ q.msg \in Messages
        /\ q.route \in {"register", "login"} => q.ruser = NoUser /\ q.rposts = {}
        /\ q.rtoken # NoToken => q.msg = "" /\ q.rtoken \in issued
        /\ (q.route = "me" /\ q.status = 200) =>
              \E u \in users : q.ruser = [id |-> u.id, email |-> u.email,
                                          password |-> NoHash]

\* /user/me answered 200 with the record of a user whose hash is stored.
C14_Witness ==
    \E r \in Reqs :
        /\ reqs[r].route = "me" /\ reqs[r].status = 200
        /\ \E u \in users : u.id = reqs[r].ruser.id /\ u.password # NoHash

\* The step in which request r completes is a failure inside its try block:
\* pool.connect() rejected (a resolved connect leads to the query), the
\* query rejected (the request ends still holding its client), or jwt.sign
\* threw for want of a secret after the INSERT or after the password matched.
FailsInTry(r) ==
    LET q == reqs[r]
        d == reqs'[r]
    IN  /\ Completes(r)
        /\ \/ q.pc = "connect"
           \/ q.pc = "query" /\ d.client
           \/ /\ JWT_SECRET = NoSecret
              /\ \/ q.route = "register" /\ q.pc = "query" /\ users' # users
                 \/ /\ q.route = "login" /\ q.pc = "compare"
                    /\ RegisteredPassword(q.row) = q.password

\* C15: in every handler a failure to acquire a client, a failing query or
\* another exception ends the request with 500 'Internal Server Error' and
\* nothing else: one response, no token issued, no other message.
C15_Step ==
    \A r \in Reqs :
        FailsInTry(r) =>
            /\ Response(reqs'[r]) = <<500, "Internal Server Error", NoToken, NoUser, {}>>
            /\ reqs'[r].sent = 1
            /\ issued' = issued

C15_FailureIsGeneric500 == [][C15_Step]_vars

\* A /login whose query failed was answered 500, and not 401.
C15_Witness ==
    \E r \in Reqs :
        /\ reqs[r].route = "login" /\ Done(reqs[r])
        /\ reqs[r].acquired = 1 /\ reqs[r].client
        /\ reqs[r].status = 500

\* C16: when the SELECT of /user/me resolves, the response is 200 with the id
\* and email of the stored user whose id is the token's userId, or, when no
\* such row exists, 404 'User not found'; a record that /user/me has sent is
\* never that of another id.
C16_Step ==
    \A r \in Reqs :
        LET q == reqs[r]
            d == reqs'[r]
        IN  /\ (q.route = "me" /\ q.pc = "query" /\ Completes(r) /\ ~d.client) =>
                IF \E u \in users : u.id = TokenUser(q)
                THEN /\ d.status = 200 /\ d.msg = ""
                     /\ \E u \in users :
                          /\ u.id = TokenUser(q)
                          /\ d.ruser = [id |-> u.id, email |-> u.email,
                                        password |-> NoHash]
                ELSE Response(d) = <<404, "User not found", NoToken, NoUser, {}>>
            /\ (d.route = "me" /\ d.ruser # NoUser) =>
                d.ruser.id = TokenUser(d)

C16_OwnProfileOr404 == [][C16_Step]_vars

\* One /user/me was answered 404 for a token whose user is not stored, and
\* another 200 with the record of the token's user.
C16_Witness ==
    \E r1, r2 \in Reqs :
        /\ reqs[r1].route = "me" /\ reqs[r1].status = 404
        /\ reqs[r1].calls = 1
        /\ \A u \in users : u.id # TokenUser(reqs[r1])
        /\ reqs[r2].route = "me" /\ reqs[r2].status = 200
        /\ reqs[r2].ruser.id = TokenUser(reqs[r2])

\* C17: a /register that completes with a status other than 201 leaves the
\* users table as it was, also when jwt.sign fails after the INSERT.
C17_Step ==
    \A r \in Reqs :
        (reqs[r].route = "register" /\ Completes(r) /\ reqs'[r].status # 201) =>
            users' = users

C17_No201NoUser == [][C17_Step]_vars

\* C18: a request has been sent no response while the gate or its handler
\* is still at work on it, and exactly one when they are through with it.
C18_ExactlyOneResponse ==
    \A r \in Reqs :
        /\ reqs[r].sent <= 1
        /\ Done(reqs[r]) <=> reqs[r].sent = 1

\* A /login ended by the early return of the unknown email, after its query.
C18_Witness ==
    \E r \in Reqs :
        /\ reqs[r].route = "login" /\ Done(reqs[r])
        /\ reqs[r].acquired = 1 /\ ~reqs[r].client
        /\ reqs[r].row = NoRow
        /\ reqs[r].status = 401 /\ reqs[r].sent = 1

\* C19: a request waiting in pool.connect() can go on: the pool has a client
\* to give, or a request at its query holds one that it gives back when the
\* datastore answers.
C19_ConnectNeverStarved ==
    \A r \in Reqs :
        reqs[r].pc = "connect" =>
            \/ pool < PoolMax
            \/ \E r2 \in Reqs : reqs[r2].pc = "query"

\* C20: the gate lets a request through to its handler only when the scheme
\* word of its Authorization header is Bearer.
C20_BearerSchemeOnly ==
    \A r \in Reqs :
        (IsProtected(reqs[r]) /\ (reqs[r].calls > 0 \/ reqs[r].user # 0)) =>
            /\ Len(reqs[r].header) >= 2
            /\ reqs[r].header[1] = Str("Bearer")

====
